---- MODULE Spec2Model ----
(***************************************************************************)
(* Dialogue-state normalisation: preprocessor.py (schema normalisation)    *)
(* and preprocessor_fuzzy.py (value normalisation fanned out over a        *)
(* process pool).                                                          *)
(*                                                                         *)
(* Python dicts keep insertion order, so a dict is a sequence of           *)
(* [k, v] entries with pairwise distinct keys.  A domain's value in a      *)
(* turn's state is [kind, items]: kind "dict" (a slot mapping), "str" (a   *)
(* bare string) or "none" (JSON null); a turn's state is [kind, items]     *)
(* likewise, of kind "dict" or "none".                                     *)
(***************************************************************************)
EXTENDS Integers, Sequences, FiniteSets, TLC

VARIABLES
    schema,      \* the schema handed to preprocess_schema (SA_MWOZ or SP_WOZ)
    ratio,       \* Levenshtein.seqratio, as a score table in hundredths
    data,        \* the corpus: a sequence of [dialog_id, turn_list]
    new_data,    \* what preprocess_schema returned for data
    again_data,  \* what preprocess_schema returned for new_data
    loop_domain, \* slot loop: domain, the domain whose slots are repaired
    loop_dict,   \* slot loop: domain_dict, the input's slot mapping
    loop_new,    \* slot loop: the copy's slot mapping, the one changed
    slot_i,      \* slot loop: the entry of domain_dict the loop is at
    domain2names,\* the ontology: domain -> slot -> canonical values
    wratio,      \* fuzzywuzzy's score of a value against a candidate
    results,     \* what the calls of fuzzy_map_per_dialog gave, by dialogue
    args,        \* main: [dialect, nj], the flags --sa / --sp and --nj
    ontology,    \* main: [exists, file], the ontology path on disk
    pool,        \* main: [next, worker, first_exc], the process pool
    exc,         \* main: the exception that ended the run
    output,      \* main: what json.dump has written
    log,         \* main: the steps taken so far, in order
    pc           \* position of the run

schemaVars == <<data, new_data, again_data>>
slotVars == <<loop_domain, loop_dict, loop_new, slot_i>>
fuzzyVars == <<domain2names, wratio, results>>
mainVars == <<args, ontology, pool, exc, output, log>>
vars == <<schema, ratio, schemaVars, slotVars, fuzzyVars, mainVars, pc>>

\* the value of a variable the run has not assigned yet
Unset == <<>>

\* the variables of main, where main does not run
MainUnset ==
    /\ args = Unset
    /\ ontology = Unset
    /\ pool = Unset
    /\ exc = Unset
    /\ output = Unset
    /\ log = Unset

----------------------------------------------------------------------------
(* Bounds of the inputs.                                                   *)

MaxActive == 3      \* longest active_domains list
MaxSlots == 2       \* most slots in one domain's slot mapping
MaxNames == 2       \* longest list of canonical values of one slot
MaxDialogs == 2     \* most dialogues in the corpus main reads
MaxTurns == 2       \* most turns in one dialogue of that corpus
MaxWorkers == 2     \* largest --nj

----------------------------------------------------------------------------
(* Ordered dicts.                                                          *)

Entry(key, val) == [k |-> key, v |-> val]

DictKeys(d) == {d[i].k : i \in 1..Len(d)}

DictHas(d, key) == \E i \in 1..Len(d) : d[i].k = key

DictGet(d, key) == d[CHOOSE i \in 1..Len(d) : d[i].k = key].v

\* d.pop(key) / del d[key]: the entry goes, the others keep their order
DictPop(d, key) == SelectSeq(d, LAMBDA e : e.k # key)

\* d[key] = val: an existing key keeps its place, a new key goes last
DictSet(d, key, val) ==
    IF DictHas(d, key)
    THEN [i \in 1..Len(d) |-> IF d[i].k = key THEN Entry(key, val) ELSE d[i]]
    ELSE Append(d, Entry(key, val))

\* list.remove(x): the first occurrence of x goes
ListRemove(s, x) ==
    LET i == CHOOSE j \in 1..Len(s) : s[j] = x /\ \A h \in 1..(j - 1) : s[h] # x
    IN  [j \in 1..(Len(s) - 1) |-> IF j < i THEN s[j] ELSE s[j + 1]]

\* all sequences over S of length at most n
SeqsUpTo(S, n) == UNION {[1..m -> S] : m \in 0..n}

\* all sequences over S of length at most n without repeated elements
DistinctSeqsUpTo(S, n) ==
    {s \in SeqsUpTo(S, n) : \A i, j \in 1..Len(s) : i # j => s[i] # s[j]}

----------------------------------------------------------------------------
(* The schemas, cut down to the domains and slots the inputs below use;    *)
(* the slots keep the order of the source lists.  "profile" is a domain    *)
(* of SP_WOZ only, "sports" a domain of neither.                           *)

SA_MWOZ == [d \in {"hotel"} |-> <<"area", "name">>]

SP_WOZ ==
    [d \in {"profile", "hotel"} |->
        IF d = "profile" THEN <<"name">> ELSE <<"area", "name">>]

Schemas == {SA_MWOZ, SP_WOZ}

Domains == {"hotel", "profile", "sports"}

SlotKeys == {"area", "name", "arae"}

\* x in list
InList(x, list) == \E i \in 1..Len(list) : list[i] = x

----------------------------------------------------------------------------
(* Levenshtein.seqratio(slot_key, gt_slot_key) > 0.7                       *)

THRESHOLD == 70

Scores == {70, 80, 90}

\* the (slot key, schema slot) pairs the search can compare
RatioPairs ==
    {p \in SlotKeys \X SlotKeys :
        /\ p[1] # p[2]
        /\ \E sc \in Schemas : \E d \in DOMAIN sc :
              InList(p[2], sc[d]) /\ ~InList(p[1], sc[d])}

seqratio(slot_key, gt_slot_key) == ratio[<<slot_key, gt_slot_key>>]

\* a threshold that lets the score 0.7 itself through
AboveThresholdInclusive(slot_key, gt_slot_key) ==
    seqratio(slot_key, gt_slot_key) >= THRESHOLD

AboveThreshold(slot_key, gt_slot_key) ==
    seqratio(slot_key, gt_slot_key) > THRESHOLD

\* the loop over schema[domain] (lines 104-113): the index of the first
\* schema slot above the threshold, 0 when the loop ends without a break
FindClosest(slot_key, gt_slots) ==
    IF \E i \in 1..Len(gt_slots) : AboveThreshold(slot_key, gt_slots[i])
    THEN CHOOSE i \in 1..Len(gt_slots) :
            /\ AboveThreshold(slot_key, gt_slots[i])
            /\ \A h \in 1..(i - 1) : ~AboveThreshold(slot_key, gt_slots[h])
    ELSE 0

\* a loop body whose flag stays True: a key without a match is kept
SlotBodyStaleFlag(new_dd, gt_slots, slot_key) ==
    IF InList(slot_key, gt_slots)
    THEN new_dd
    ELSE LET m == FindClosest(slot_key, gt_slots)
         IN  IF m # 0
             THEN DictSet(DictPop(new_dd, slot_key), gt_slots[m],
                          DictGet(new_dd, slot_key))
             ELSE new_dd

\* the body of the loop over the slots of a domain (lines 98-118), on the
\* copy's slot mapping new_dd
SlotBody(new_dd, gt_slots, slot_key) ==
    IF InList(slot_key, gt_slots)
    THEN new_dd
    ELSE LET m == FindClosest(slot_key, gt_slots)
             flag == m # 0
         IN  IF flag
             THEN DictSet(DictPop(new_dd, slot_key), gt_slots[m],
                          DictGet(new_dd, slot_key))
             ELSE DictPop(new_dd, slot_key)

\* a loop over the entries of the mapping it changes: a deletion moves the
\* next entry into the place the loop has just left
RECURSIVE SlotLoopInPlace(_, _, _, _)
SlotLoopInPlace(domain_dict, i, gt_slots, new_dd) ==
    IF i > Len(new_dd)
    THEN new_dd
    ELSE SlotLoopInPlace(domain_dict, i + 1, gt_slots,
                         SlotBody(new_dd, gt_slots, new_dd[i].k))

\* for slot_key, slot_val in domain_dict.items(), from entry i on
RECURSIVE SlotLoop(_, _, _, _)
SlotLoop(domain_dict, i, gt_slots, new_dd) ==
    IF i > Len(domain_dict)
    THEN new_dd
    ELSE SlotLoop(domain_dict, i + 1, gt_slots,
                  SlotBody(new_dd, gt_slots, domain_dict[i].k))

\* the body of the loop over the domains of a state (lines 85-118), on the
\* copy's state new_state
DomainBody(new_state, sch, domain, domain_dict) ==
    IF domain \notin DOMAIN sch
    THEN DictPop(new_state, domain)
    ELSE IF domain_dict.kind = "str"
    THEN DictPop(new_state, domain)
    ELSE DictSet(new_state, domain,
                 [kind |-> "dict",
                  items |-> SlotLoop(domain_dict.items, 1, sch[domain],
                                     DictGet(new_state, domain).items)])

RECURSIVE DomainLoop(_, _, _, _)
DomainLoop(state, i, sch, new_state) ==
    IF i > Len(state)
    THEN new_state
    ELSE DomainLoop(state, i + 1, sch,
                    DomainBody(new_state, sch, state[i].k, state[i].v))

\* a loop over the list it shrinks: a removal moves the next entry into the
\* place the loop has just left
RECURSIVE ActiveLoopInPlace(_, _, _, _)
ActiveLoopInPlace(active_domains, i, sch, new_active) ==
    IF i > Len(new_active)
    THEN new_active
    ELSE ActiveLoopInPlace(active_domains, i + 1, sch,
                           IF new_active[i] \notin DOMAIN sch
                           THEN ListRemove(new_active, new_active[i])
                           ELSE new_active)

\* for act_dom in turn_dict["active_domains"] (lines 74-79), from entry i on
RECURSIVE ActiveLoop(_, _, _, _)
ActiveLoop(active_domains, i, sch, new_active) ==
    IF i > Len(active_domains)
    THEN new_active
    ELSE ActiveLoop(active_domains, i + 1, sch,
                    IF active_domains[i] \notin DOMAIN sch
                    THEN ListRemove(new_active, active_domains[i])
                    ELSE new_active)

\* one pass of the loop over a dialogue's turns (lines 70-118); the state
\* of the turn is a mapping (len() of a null state raises)
TurnBody(turn_dict, sch) ==
    LET new_turn_dict == turn_dict
        act == ActiveLoop(turn_dict.active_domains, 1, sch,
                          new_turn_dict.active_domains)
    IN  IF Len(turn_dict.state.items) = 0
        THEN [new_turn_dict EXCEPT !.active_domains = act]
        ELSE [new_turn_dict EXCEPT
                 !.active_domains = act,
                 !.state.items = DomainLoop(turn_dict.state.items, 1, sch,
                                            new_turn_dict.state.items)]

preprocess_schema(corpus, sch) ==
    [n \in 1..Len(corpus) |->
        [dialog_id |-> corpus[n].dialog_id,
         turn_list |-> [i \in 1..Len(corpus[n].turn_list) |->
                           TurnBody(corpus[n].turn_list[i], sch)]]]

----------------------------------------------------------------------------
(* Value normalisation: fuzzy_map_per_dialog (preprocessor_fuzzy.py).      *)
(*                                                                         *)
(* domain2names is a function from the ontology's domains to functions     *)
(* from slot names to lists of canonical values.  An exception is          *)
(* [type, info]: info holds the <<what, text>> pairs its message shows.    *)

\* an exclusion set without the slot people
ExcludedWithoutPeople == {"time", "leaveat", "arriveby", "stars"}

EXCLUDED == {"time", "leaveat", "arriveby", "people", "stars"}

NoExc == [type |-> "none", info |-> {}]

\* the score fuzzywuzzy gives the query against one choice
Score(query, choice) == wratio[<<query, choice>>]

\* an extractOne that keeps the last of the choices that score highest
extractOneLast(query, choices) ==
    IF Len(choices) = 0
    THEN 0
    ELSE CHOOSE c \in 1..Len(choices) :
            /\ \A h \in 1..Len(choices) :
                  Score(query, choices[h]) <= Score(query, choices[c])
            /\ \A h \in (c + 1)..Len(choices) :
                  Score(query, choices[h]) < Score(query, choices[c])

\* process.extractOne(slot_val, choices): max() keeps the first of the
\* choices that score highest; 0 stands for None, returned for no choices
extractOne(query, choices) ==
    IF Len(choices) = 0
    THEN 0
    ELSE CHOOSE c \in 1..Len(choices) :
            /\ \A h \in 1..Len(choices) :
                  Score(query, choices[h]) <= Score(query, choices[c])
            /\ \A h \in 1..(c - 1) :
                  Score(query, choices[h]) < Score(query, choices[c])

\* the body of the loop over the slots (lines 80-100), on the copy's slot
\* mapping new_dd: [exc, items]
FuzzySlotBody(new_dd, domain, slot_key, slot_val, d2n) ==
    IF domain \in DOMAIN d2n /\ slot_key \notin EXCLUDED
    THEN IF slot_key \notin DOMAIN d2n[domain]
         THEN \* domain2names[domain][slot_key] raises KeyError(slot_key),
              \* which the except TypeError clause lets through
              [exc |-> [type |-> "KeyError", info |-> {<<"slot", slot_key>>}],
               items |-> new_dd]
         ELSE LET choices == d2n[domain][slot_key]
                  c == extractOne(slot_val, choices)
              IN  IF c = 0
                  THEN \* unpacking None raises TypeError, raised again
                       \* with the message of lines 93-96
                       [exc |-> [type |-> "TypeError",
                                 info |-> {<<"domain", domain>>,
                                           <<"slot", slot_key>>,
                                           <<"value", slot_val>>}],
                        items |-> new_dd]
                  ELSE [exc |-> NoExc,
                        items |-> DictSet(new_dd, slot_key, choices[c])]
    ELSE [exc |-> NoExc, items |-> new_dd]

\* for slot_key, slot_val in list(domain_dict.items()), from entry j on
RECURSIVE FuzzySlotLoop(_, _, _, _, _)
FuzzySlotLoop(items, j, domain, d2n, new_dd) ==
    IF j > Len(items)
    THEN [exc |-> NoExc, items |-> new_dd]
    ELSE LET r == FuzzySlotBody(new_dd, domain, items[j].k, items[j].v, d2n)
         IN  IF r.exc # NoExc
             THEN r
             ELSE FuzzySlotLoop(items, j + 1, domain, d2n, r.items)

\* for domain, domain_dict in turn_dict["state"].items(), from entry e on,
\* on the copy's state new_state: [exc, items]
RECURSIVE FuzzyDomainLoop(_, _, _, _)
FuzzyDomainLoop(state, e, d2n, new_state) ==
    IF e > Len(state)
    THEN [exc |-> NoExc, items |-> new_state]
    ELSE LET domain == state[e].k
             domain_dict == state[e].v
         IN  IF domain_dict.kind = "none"
             THEN FuzzyDomainLoop(state, e + 1, d2n, new_state)
             ELSE IF domain_dict.kind = "str"
             THEN \* a str has no items()
                  [exc |-> [type |-> "AttributeError", info |-> {}],
                   items |-> new_state]
             ELSE LET r == FuzzySlotLoop(domain_dict.items, 1, domain, d2n,
                                         DictGet(new_state, domain).items)
                  IN  IF r.exc # NoExc
                      THEN [exc |-> r.exc, items |-> new_state]
                      ELSE FuzzyDomainLoop(state, e + 1, d2n,
                               DictSet(new_state, domain,
                                       [kind |-> "dict", items |-> r.items]))

\* one pass of the loop over the turns (lines 68-100): [exc, turn]
FuzzyTurnBody(turn_dict, d2n) ==
    LET new_turn_dict == turn_dict
    IN  IF turn_dict.state.kind = "none"
        THEN [exc |-> NoExc, turn |-> new_turn_dict]
        ELSE LET r == FuzzyDomainLoop(turn_dict.state.items, 1, d2n,
                                      new_turn_dict.state.items)
             IN  [exc |-> r.exc,
                  turn |-> [new_turn_dict EXCEPT !.state.items = r.items]]

\* for i, turn_dict in enumerate(dialog_dict["turn_list"]), from turn i on
RECURSIVE FuzzyTurnLoop(_, _, _, _)
FuzzyTurnLoop(turn_list, i, d2n, new_turn_list) ==
    IF i > Len(turn_list)
    THEN [exc |-> NoExc, turn_list |-> new_turn_list]
    ELSE LET r == FuzzyTurnBody(turn_list[i], d2n)
         IN  IF r.exc # NoExc
             THEN [exc |-> r.exc, turn_list |-> new_turn_list]
             ELSE FuzzyTurnLoop(turn_list, i + 1, d2n,
                                Append(new_turn_list, r.turn))

\* a call that leaves new_dialog_dict["turn_list"] as line 65 set it
fuzzy_map_per_dialog_no_turns(dialog_dict, d2n) ==
    LET r == FuzzyTurnLoop(dialog_dict.turn_list, 1, d2n, <<>>)
    IN  IF r.exc # NoExc
        THEN [ok |-> FALSE, value |-> Unset, exc |-> r.exc]
        ELSE [ok |-> TRUE,
              value |-> [dialog_id |-> dialog_dict.dialog_id, turn_list |-> <<>>],
              exc |-> NoExc]

\* what a call returns: [ok, value, exc], value the new dialog_dict when
\* the call returns and exc the exception when it raises
fuzzy_map_per_dialog(dialog_dict, d2n) ==
    LET r == FuzzyTurnLoop(dialog_dict.turn_list, 1, d2n, <<>>)
    IN  IF r.exc # NoExc
        THEN [ok |-> FALSE, value |-> Unset, exc |-> r.exc]
        ELSE [ok |-> TRUE,
              value |-> [dialog_id |-> dialog_dict.dialog_id,
                         turn_list |-> r.turn_list],
              exc |-> NoExc]

----------------------------------------------------------------------------
(* Inputs of preprocess_schema.                                            *)

\* the value a slot holds in the input: one value per key, so that a value
\* in the output tells which input slot it came from
ValueOf(slot_key) ==
    CASE slot_key = "area" -> "north"
      [] slot_key = "name" -> "alpha"
      [] OTHER             -> "centre"

SlotDicts ==
    {[i \in 1..Len(ks) |-> Entry(ks[i], ValueOf(ks[i]))] :
        ks \in DistinctSeqsUpTo(SlotKeys, MaxSlots)}

DomainValues ==
    {[kind |-> "dict", items |-> d] : d \in SlotDicts}
        \cup {[kind |-> "str", items |-> <<>>]}

\* the domains of the states drawn in full: "profile" is outside SA_MWOZ
StateDomains == {"hotel", "profile"}

States ==
    UNION {{[i \in 1..Len(ds) |-> Entry(ds[i], f[i])] :
               f \in [1..Len(ds) -> DomainValues]} :
           ds \in DistinctSeqsUpTo(StateDomains, Cardinality(StateDomains))}

\* a turn: tag stands for the fields of a turn other than active_domains
\* and state, and names the dialogue and the place the turn has in the input
Turn(act, st, n, i) ==
    [active_domains |-> act,
     state |-> [kind |-> "dict", items |-> st],
     tag |-> <<n, i>>]

\* a corpus of one dialogue of one turn
OneTurn(act, st) ==
    <<[dialog_id |-> "d1", turn_list |-> <<Turn(act, st, 1, 1)>>]>>

SampleState ==
    <<Entry("sports", [kind |-> "dict", items |-> <<Entry("name", "alpha")>>]),
      Entry("hotel", [kind |-> "dict", items |-> <<Entry("arae", "centre")>>])>>

\* every active_domains list over a small state, every state under one
\* active_domains list
SchemaInputs ==
    {OneTurn(act, st) : act \in SeqsUpTo(Domains, MaxActive),
                        st \in {<<>>, SampleState}}
        \cup {OneTurn(<<"sports", "hotel">>, st) : st \in States}

InitSchema ==
    /\ schema \in Schemas
    /\ ratio \in [RatioPairs -> Scores]
    /\ data \in SchemaInputs
    /\ new_data = Unset
    /\ again_data = Unset
    /\ loop_domain = Unset
    /\ loop_dict = Unset
    /\ loop_new = Unset
    /\ slot_i = 0
    /\ domain2names = Unset
    /\ wratio = Unset
    /\ results = Unset
    /\ MainUnset
    /\ pc = "start"

\* new_data = preprocess_schema(data, SCHEMA, args.verbose)
Preprocess ==
    /\ pc = "start"
    /\ new_data' = preprocess_schema(data, schema)
    /\ pc' = "once"
    /\ UNCHANGED <<schema, ratio, data, again_data, slotVars, fuzzyVars, mainVars>>

\* the same call on what the first one returned
PreprocessAgain ==
    /\ pc = "once"
    /\ again_data' = preprocess_schema(new_data, schema)
    /\ pc' = "twice"
    /\ UNCHANGED <<schema, ratio, data, new_data, slotVars, fuzzyVars, mainVars>>

NextSchema == Preprocess \/ PreprocessAgain

SpecSchema == InitSchema /\ [][NextSchema]_vars

----------------------------------------------------------------------------
(* The loop over the slots of one domain, one slot a step.                 *)

InitSlot ==
    /\ schema \in Schemas
    /\ ratio \in [RatioPairs -> Scores]
    /\ loop_domain \in DOMAIN schema
    /\ loop_dict \in SlotDicts
    /\ loop_new = loop_dict
    /\ slot_i = 1
    /\ data = Unset
    /\ new_data = Unset
    /\ again_data = Unset
    /\ domain2names = Unset
    /\ wratio = Unset
    /\ results = Unset
    /\ MainUnset
    /\ pc = "slots"

\* one pass of the loop of lines 97-118
SlotStep ==
    /\ pc = "slots"
    /\ slot_i <= Len(loop_dict)
    /\ loop_new' = SlotBody(loop_new, schema[loop_domain], loop_dict[slot_i].k)
    /\ slot_i' = slot_i + 1
    /\ UNCHANGED <<schema, ratio, schemaVars, loop_domain, loop_dict, fuzzyVars, mainVars, pc>>

NextSlot == SlotStep

SpecSlot == InitSlot /\ [][NextSlot]_vars

----------------------------------------------------------------------------
(* Inputs of fuzzy_map_per_dialog.                                         *)

FuzzyValues == {"nroth", "cambrige"}

Names == {"north", "cambridge"}

FuzzyScores == {50, 90}

FuzzySlots == {"area", "name", "people"}

\* the lists of canonical values a slot of the ontology may hold: every
\* list for area, one list for name and for the excluded slot people
SlotChoices(slot) ==
    CASE slot = "area" -> SeqsUpTo(Names, MaxNames)
      [] slot = "name" -> {<<"cambridge", "north">>}
      [] OTHER         -> {<<"north">>}

\* the ontologies: none of the domains, or hotel with any of its slots;
\* taxi is a domain of no ontology
Ontologies ==
    {[d \in {} |-> d]}
        \cup {[d \in {"hotel"} |-> f] :
                 f \in UNION {{g \in [S -> SeqsUpTo(Names, MaxNames + 1)] :
                                  \A sl \in S : g[sl] \in SlotChoices(sl)} :
                              S \in SUBSET FuzzySlots}}

FuzzySlotDicts ==
    UNION {{[i \in 1..Len(ks) |-> Entry(ks[i], f[i])] :
               f \in [1..Len(ks) -> FuzzyValues]} :
           ks \in DistinctSeqsUpTo(FuzzySlots, MaxSlots)}

FuzzyDomainValues ==
    {[kind |-> "dict", items |-> d] : d \in FuzzySlotDicts}
        \cup {[kind |-> "str", items |-> <<>>], [kind |-> "none", items |-> <<>>]}

TaxiEntry ==
    Entry("taxi", [kind |-> "dict", items |-> <<Entry("area", "nroth")>>])

FuzzyStates ==
    {<<>>, <<TaxiEntry>>}
        \cup {<<Entry("hotel", v)>> : v \in FuzzyDomainValues}
        \cup {<<TaxiEntry, Entry("hotel", v)>> : v \in FuzzyDomainValues}

\* one dialogue of one turn, its state null or one of FuzzyStates
FuzzyInputs ==
    {OneTurn(<<"hotel">>, st) : st \in FuzzyStates}
        \cup {<<[dialog_id |-> "d1",
                 turn_list |-> <<[active_domains |-> <<"hotel">>,
                                  state |-> [kind |-> "none", items |-> <<>>],
                                  tag |-> <<1, 1>>]>>]>>}

InitFuzzy ==
    /\ domain2names \in Ontologies
    /\ wratio \in [FuzzyValues \X Names -> FuzzyScores]
    /\ data \in FuzzyInputs
    /\ results = Unset
    /\ schema = Unset
    /\ ratio = Unset
    /\ new_data = Unset
    /\ again_data = Unset
    /\ loop_domain = Unset
    /\ loop_dict = Unset
    /\ loop_new = Unset
    /\ slot_i = 0
    /\ MainUnset
    /\ pc = "fuzzy"

\* one call fuzzy_map_per_dialog(dialog_dict, domain2names)
FuzzyMap ==
    /\ pc = "fuzzy"
    /\ results' = [n \in 1..Len(data) |-> fuzzy_map_per_dialog(data[n], domain2names)]
    /\ pc' = "mapped"
    /\ UNCHANGED <<schema, ratio, schemaVars, slotVars, domain2names, wratio, mainVars>>

NextFuzzy == FuzzyMap

SpecFuzzy == InitFuzzy /\ [][NextFuzzy]_vars

----------------------------------------------------------------------------
(* main of preprocessor_fuzzy.py.                                          *)

\* the slots load_spokenwoz_domain2names leaves out (line 49)
LOADER_EXCLUDED == {"time", "leaveat", "arriveby", "people", "stars"}

EmptyDict == [x \in {} |-> x]

\* the file is the mapping itself
load_sa_mwoz_domain2names(file) == file

\* the file maps "domain-slot" to a list of names, here a sequence of
\* [k, v] with k the two parts dom_slot.split("-") gives; from entry i on
RECURSIVE SpokenwozLoop(_, _, _)
SpokenwozLoop(file, i, d2n) ==
    IF i > Len(file)
    THEN d2n
    ELSE LET domain == file[i].k[1]
             slot == file[i].k[2]
             names == file[i].v
             with_domain == IF domain \in DOMAIN d2n
                            THEN d2n
                            ELSE (domain :> EmptyDict) @@ d2n
         IN  SpokenwozLoop(file, i + 1,
                 IF slot \notin LOADER_EXCLUDED
                 THEN [with_domain EXCEPT ![domain] = (slot :> names) @@ @]
                 ELSE with_domain)

load_spokenwoz_domain2names(file) == SpokenwozLoop(file, 1, EmptyDict)

Pending == [ok |-> FALSE, value |-> Unset, exc |-> NoExc]

NoOutput == [dest |-> "none", corpus |-> <<>>]

IdlePool == [next |-> 0, worker |-> <<>>, first_exc |-> NoExc, first_done |-> 0]

\* dialog_list (lines 141-144)
DialogList(corpus) ==
    [n \in 1..Len(corpus) |->
        [dialog_id |-> corpus[n].dialog_id, turn_list |-> corpus[n].turn_list]]

\* the dict comprehension of lines 153-156, from entry n on
RECURSIVE NewData(_, _, _)
NewData(new_dialog_list, n, acc) ==
    IF n > Len(new_dialog_list)
    THEN acc
    ELSE NewData(new_dialog_list, n + 1,
                 DictSet(acc, new_dialog_list[n].dialog_id,
                         new_dialog_list[n].turn_list))

Step(name) == log' = Append(log, name)

\* data = preprocess_schema(data, SA_MWOZ / SP_WOZ, args.verbose)
SchemaNormalize ==
    /\ pc = "start"
    /\ new_data' = preprocess_schema(data, schema)
    /\ Step("preprocess_schema")
    /\ pc' = "schema_done"
    /\ UNCHANGED <<schema, ratio, data, again_data, slotVars, fuzzyVars,
                   args, ontology, pool, exc, output>>

\* if not os.path.exists(path): raise FileNotFoundError
OntologyMissing ==
    /\ pc = "schema_done"
    /\ ~ontology.exists
    /\ exc' = [type |-> "FileNotFoundError", info |-> {<<"path", "ontology">>}]
    /\ Step("exists")
    /\ pc' = "failed"
    /\ UNCHANGED <<schema, ratio, schemaVars, slotVars, fuzzyVars,
                   args, ontology, pool, output>>

OntologyFound ==
    /\ pc = "schema_done"
    /\ ontology.exists
    /\ Step("exists")
    /\ pc' = "checked"
    /\ UNCHANGED <<schema, ratio, schemaVars, slotVars, fuzzyVars,
                   args, ontology, pool, exc, output>>

\* domain2names = load_sa_mwoz_domain2names(path) / load_spokenwoz_...
LoadOntology ==
    /\ pc = "checked"
    /\ domain2names' = IF args.dialect = "sa"
                       THEN load_sa_mwoz_domain2names(ontology.file)
                       ELSE load_spokenwoz_domain2names(ontology.file)
    /\ Step("load")
    /\ pc' = "loaded"
    /\ UNCHANGED <<schema, ratio, schemaVars, slotVars, wratio, results,
                   args, ontology, pool, exc, output>>

\* with Pool(args.nj) as p: p.map(...) hands out one task a dialogue
MapStart ==
    /\ pc = "loaded"
    /\ results' = [n \in 1..Len(new_data) |-> Pending]
    /\ pool' = [next |-> 1, worker |-> [w \in 1..args.nj |-> 0],
                first_exc |-> NoExc, first_done |-> 0]
    /\ Step("map")
    /\ pc' = "pool"
    /\ UNCHANGED <<schema, ratio, schemaVars, slotVars, domain2names, wratio,
                   args, ontology, exc, output>>

\* an idle worker takes the next task off the queue
WorkerTake(w) ==
    /\ pc = "pool"
    /\ pool.worker[w] = 0
    /\ pool.next <= Len(new_data)
    /\ pool' = [pool EXCEPT !.worker[w] = pool.next, !.next = pool.next + 1]
    /\ UNCHANGED <<schema, ratio, schemaVars, slotVars, fuzzyVars,
                   args, ontology, exc, output, log, pc>>

\* a worker ends its call of fuzzy_map_per_dialog: the value or the
\* exception goes to the task's place in the result, and the result keeps
\* the first exception to arrive
WorkerFinish(w) ==
    /\ pc = "pool"
    /\ pool.worker[w] # 0
    /\ LET n == pool.worker[w]
           r == fuzzy_map_per_dialog(DialogList(new_data)[n], domain2names)
       IN  /\ results' = [results EXCEPT ![n] = r]
           /\ pool' = [pool EXCEPT
                          !.worker[w] = 0,
                          !.first_exc = IF ~r.ok /\ pool.first_exc = NoExc
                                        THEN r.exc ELSE @,
                          !.first_done = IF @ = 0 THEN n ELSE @]
    /\ UNCHANGED <<schema, ratio, schemaVars, slotVars, domain2names, wratio,
                   args, ontology, exc, output, log, pc>>

AllTasksDone ==
    /\ pool.next > Len(new_data)
    /\ \A w \in DOMAIN pool.worker : pool.worker[w] = 0

\* a map() that returns what the calls that returned gave, whatever the
\* others raised
MapReturnPartial ==
    /\ pc = "pool"
    /\ AllTasksDone
    /\ results' = SelectSeq(results, LAMBDA r : r.ok)
    /\ pc' = "joined"
    /\ UNCHANGED <<schema, ratio, schemaVars, slotVars, domain2names, wratio,
                   args, ontology, pool, exc, output, log>>

\* p.map returns new_dialog_list: every task is done and none has raised
MapReturn ==
    /\ pc = "pool"
    /\ AllTasksDone
    /\ pool.first_exc = NoExc
    /\ results' = results
    /\ pc' = "joined"
    /\ UNCHANGED <<schema, ratio, schemaVars, slotVars, domain2names, wratio,
                   args, ontology, pool, exc, output, log>>

\* p.map raises the first exception a task has raised (at once or when
\* every task is done, by the version of multiprocessing); leaving the
\* with block ends the pool
MapRaise ==
    /\ pc = "pool"
    /\ pool.first_exc # NoExc
    /\ exc' = pool.first_exc
    /\ pc' = "failed"
    /\ UNCHANGED <<schema, ratio, schemaVars, slotVars, fuzzyVars,
                   args, ontology, pool, output, log>>

\* new_data built from new_dialog_list, then json.dump to args.out_json or
\* to sys.stdout
Dump ==
    /\ pc = "joined"
    /\ \E dest \in {"out_json", "stdout"} :
          output' = [dest |-> dest,
                     corpus |-> NewData([n \in 1..Len(results) |-> results[n].value],
                                        1, <<>>)]
    /\ Step("dump")
    /\ pc' = "done"
    /\ UNCHANGED <<schema, ratio, schemaVars, slotVars, fuzzyVars,
                   args, ontology, pool, exc>>

----------------------------------------------------------------------------
(* Inputs of main.                                                         *)

DialogIds == <<"d1", "d2", "d3", "d4">>

\* a turn with a domain outside the schema and a misspelt slot key
GoodTurn(n, i) ==
    Turn(<<"sports", "hotel">>,
         <<Entry("sports", [kind |-> "dict", items |-> <<Entry("name", "nroth")>>]),
           Entry("hotel", [kind |-> "dict", items |-> <<Entry("arae", "nroth")>>])>>,
         n, i)

\* a turn with the slot name, which the ontologies below lack for hotel
BadTurn(n, i) ==
    Turn(<<"hotel">>,
         <<Entry("hotel", [kind |-> "dict", items |-> <<Entry("name", "cambrige")>>])>>,
         n, i)

\* the turn lists of dialogue n: good turns, the last turn good or bad (a
\* call stops at its first bad turn)
TurnLists(n) ==
    {[i \in 1..m |-> IF i < m \/ last_good THEN GoodTurn(n, i) ELSE BadTurn(n, i)] :
        m \in 0..MaxTurns, last_good \in BOOLEAN}

Corpora ==
    UNION {{[n \in 1..m |-> [dialog_id |-> DialogIds[n], turn_list |-> f[n]]] :
               f \in {g \in [1..m -> UNION {TurnLists(n) : n \in 1..m}] :
                         \A n \in 1..m : g[n] \in TurnLists(n)}} :
           m \in 0..MaxDialogs}

\* the ontology file of each dialect: area and the excluded slot people
\* for hotel
OntologyFile(dialect) ==
    IF dialect = "sa"
    THEN [d \in {"hotel"} |->
             [sl \in {"area", "people"} |->
                 IF sl = "area" THEN <<"north", "cambridge">> ELSE <<"north">>]]
    ELSE <<Entry(<<"hotel", "area">>, <<"north", "cambridge">>),
           Entry(<<"hotel", "people">>, <<"north">>)>>

\* arae is close to area alone
MainRatio ==
    [p \in RatioPairs |-> IF p = <<"arae", "area">> THEN 80 ELSE 70]

\* nroth is close to north, cambrige to cambridge
MainWratio ==
    [p \in FuzzyValues \X Names |->
        IF p \in {<<"nroth", "north">>, <<"cambrige", "cambridge">>} THEN 90 ELSE 50]

Init ==
    /\ args \in [dialect : {"sa", "sp"}, nj : 1..MaxWorkers]
    /\ schema = (IF args.dialect = "sa" THEN SA_MWOZ ELSE SP_WOZ)
    /\ ontology \in {[exists |-> b, file |-> OntologyFile(args.dialect)] :
                        b \in BOOLEAN}
    /\ data \in Corpora
    /\ ratio = MainRatio
    /\ wratio = MainWratio
    /\ new_data = Unset
    /\ again_data = Unset
    /\ loop_domain = Unset
    /\ loop_dict = Unset
    /\ loop_new = Unset
    /\ slot_i = 0
    /\ domain2names = Unset
    /\ results = Unset
    /\ pool = IdlePool
    /\ exc = NoExc
    /\ output = NoOutput
    /\ log = <<>>
    /\ pc = "start"

Next ==
    \/ SchemaNormalize
    \/ OntologyMissing
    \/ OntologyFound
    \/ LoadOntology
    \/ MapStart
    \/ \E w \in DOMAIN pool.worker : WorkerTake(w)
    \/ \E w \in DOMAIN pool.worker : WorkerFinish(w)
    \/ MapReturn
    \/ MapRaise
    \/ Dump

Spec == Init /\ [][Next]_vars

----------------------------------------------------------------------------
(* Schema normalisation: the claims.                                       *)

\* the places <<dialogue, turn>> of a corpus
Turns(corpus) ==
    UNION {{<<n, i>> : i \in 1..Len(corpus[n].turn_list)} : n \in 1..Len(corpus)}

TurnAt(corpus, t) == corpus[t[1]].turn_list[t[2]]

Valid(d) == d \in DOMAIN schema

\* C1: after preprocess_schema every domain key of every turn's state is a
\* domain of the schema, holds a slot mapping, and every slot key of that
\* mapping is in the schema's slot list of the domain.
C1_SchemaClosure ==
    pc \in {"once", "twice"} =>
        \A t \in Turns(new_data) :
            LET st == TurnAt(new_data, t).state.items
            IN  \A e \in 1..Len(st) :
                    /\ Valid(st[e].k)
                    /\ st[e].v.kind = "dict"
                    /\ \A j \in 1..Len(st[e].v.items) :
                           InList(st[e].v.items[j].k, schema[st[e].k])

\* a turn with a domain outside the schema, a bare string under a valid
\* domain or a slot key outside the schema, and a slot left in the output
C1_Witness ==
    /\ pc = "once"
    /\ \E t \in Turns(data) :
          LET st == TurnAt(data, t).state.items
              out == TurnAt(new_data, t).state.items
          IN  /\ \E e \in 1..Len(st) : ~Valid(st[e].k)
              /\ \E e \in 1..Len(st) :
                    /\ Valid(st[e].k)
                    /\ st[e].v.kind = "dict"
                    /\ \E j \in 1..Len(st[e].v.items) :
                           ~InList(st[e].v.items[j].k, schema[st[e].k])
              /\ \E e \in 1..Len(out) : Len(out[e].v.items) > 0

\* C2: the active_domains preprocess_schema returns for a turn is the input
\* list without its entries outside the schema: no such entry is left, and
\* the entries of the schema keep their order and their multiplicity.
C2_ActiveDomains ==
    pc \in {"once", "twice"} =>
        \A t \in Turns(data) :
            TurnAt(new_data, t).active_domains
                = SelectSeq(TurnAt(data, t).active_domains, Valid)

\* two consecutive entries outside the schema, the same one twice, before
\* an entry of the schema
C2_Witness ==
    /\ pc = "once"
    /\ \E t \in Turns(data) :
          LET a == TurnAt(data, t).active_domains
          IN  /\ Len(a) >= 3
              /\ ~Valid(a[1]) /\ a[2] = a[1] /\ Valid(a[3])
              /\ TurnAt(new_data, t).active_domains # a

\* C8: preprocess_schema applied to what preprocess_schema returned returns
\* the same corpus.
C8_Idempotent ==
    pc = "twice" => again_data = new_data

\* a second pass over a corpus the first pass has changed, in its active
\* domains and in its state
C8_Witness ==
    /\ pc = "twice"
    /\ \E t \in Turns(data) :
          /\ TurnAt(new_data, t).active_domains # TurnAt(data, t).active_domains
          /\ TurnAt(new_data, t).state # TurnAt(data, t).state
          /\ Len(TurnAt(new_data, t).state.items) > 0

\* the schema slots, by their place in the list, that score above 0.7
\* against the key
Above(key, gt_slots) ==
    {g \in 1..Len(gt_slots) : ratio[<<key, gt_slots[g]>>] > 70}

\* the entries of a slot mapping under keys other than those of K
Others(d, K) == SelectSeq(d, LAMBDA e : e.k \notin K)

\* what C4 says of the pass of the loop over the key at slot_i
C4_Step ==
    LET key == loop_dict[slot_i].k
        gt_slots == schema[loop_domain]
        above == Above(key, gt_slots)
    IN  (slot_i' = slot_i + 1 /\ ~InList(key, gt_slots)) =>
            IF above = {}
            THEN loop_new' = DictPop(loop_new, key)
            ELSE LET first == CHOOSE g \in above : \A h \in above : g <= h
                     gt == gt_slots[first]
                 IN  /\ ~DictHas(loop_new', key)
                     /\ DictHas(loop_new', gt)
                     /\ DictGet(loop_new', gt) = DictGet(loop_dict, key)
                     /\ Others(loop_new', {key, gt}) = Others(loop_new, {key, gt})

----------------------------------------------------------------------------
(* Value normalisation: the claims.                                        *)

\* the slots of a corpus: <<dialogue, turn, domain entry, slot entry>>
SlotsOf(corpus) ==
    UNION {UNION {{<<t[1], t[2], e, j>> :
                      j \in 1..Len(TurnAt(corpus, t).state.items[e].v.items)} :
                  e \in 1..Len(TurnAt(corpus, t).state.items)} :
           t \in Turns(corpus)}

DomainOf(corpus, p) == TurnAt(corpus, <<p[1], p[2]>>).state.items[p[3]].k
SlotOf(corpus, p) == TurnAt(corpus, <<p[1], p[2]>>).state.items[p[3]].v.items[p[4]]

\* the slots value normalisation looks up in the ontology
Eligible(corpus, p) ==
    /\ DomainOf(corpus, p) \in DOMAIN domain2names
    /\ SlotOf(corpus, p).k \notin {"time", "leaveat", "arriveby", "people", "stars"}

\* the corpus the calls returned, when every call returned
Returned == [n \in 1..Len(results) |-> results[n].value]

AllReturned == \A n \in 1..Len(results) : results[n].ok

\* the places of the candidates that score highest against the value
Best(val, cands) ==
    {c \in 1..Len(cands) :
        \A h \in 1..Len(cands) : wratio[<<val, cands[h]>>] <= wratio[<<val, cands[c]>>]}

\* C5: when fuzzy_map_per_dialog returns, every slot outside the exclusion
\* set whose domain is a key of the ontology holds a value of the ontology's
\* list for that domain and slot: the candidate that scores highest against
\* the input value, the first such candidate in the list's order.
C5_ValueInOntology ==
    (pc = "mapped" /\ AllReturned) =>
        \A p \in SlotsOf(data) :
            Eligible(data, p) =>
                LET cands == domain2names[DomainOf(data, p)][SlotOf(data, p).k]
                    best == Best(SlotOf(data, p).v, cands)
                    out == SlotOf(Returned, p).v
                IN  /\ \E c \in 1..Len(cands) : cands[c] = out
                    /\ \E c \in best : /\ \A h \in best : c <= h
                                        /\ out = cands[c]

\* a returned call that has rewritten a slot whose two candidates score the
\* same against the value
C5_Witness ==
    /\ pc = "mapped"
    /\ AllReturned
    /\ \E p \in SlotsOf(data) :
          /\ Eligible(data, p)
          /\ LET cands == domain2names[DomainOf(data, p)][SlotOf(data, p).k]
             IN  /\ Len(cands) = 2
                 /\ cands[1] # cands[2]
                 /\ Best(SlotOf(data, p).v, cands) = {1, 2}
          /\ SlotOf(Returned, p).v # SlotOf(data, p).v

\* the keys of a dict, in its order
KeySeq(d) == [i \in 1..Len(d) |-> d[i].k]

\* C6: the turns fuzzy_map_per_dialog returns have the domain keys and, per
\* domain, the slot keys of the input turns; a slot of the exclusion set or
\* of a domain outside the ontology keeps its value; the dialogue id and
\* the other fields of the turns are those of the input.
C6_FrameOfValues ==
    (pc = "mapped" /\ AllReturned) =>
        /\ Len(Returned) = Len(data)
        /\ \A n \in 1..Len(data) :
              /\ Returned[n].dialog_id = data[n].dialog_id
              /\ Len(Returned[n].turn_list) = Len(data[n].turn_list)
        /\ \A t \in Turns(data) :
              LET in == TurnAt(data, t)
                  out == TurnAt(Returned, t)
              IN  /\ out.tag = in.tag
                  /\ out.active_domains = in.active_domains
                  /\ out.state.kind = in.state.kind
                  /\ KeySeq(out.state.items) = KeySeq(in.state.items)
                  /\ \A e \in 1..Len(in.state.items) :
                        /\ out.state.items[e].v.kind = in.state.items[e].v.kind
                        /\ KeySeq(out.state.items[e].v.items)
                              = KeySeq(in.state.items[e].v.items)
        /\ \A p \in SlotsOf(data) :
              ~Eligible(data, p) => SlotOf(Returned, p) = SlotOf(data, p)

\* a returned call over a turn that holds the excluded slot people, for
\* which the ontology has a list, a slot of a domain outside the ontology,
\* and a slot whose value the call has rewritten
C6_Witness ==
    /\ pc = "mapped"
    /\ AllReturned
    /\ \E p \in SlotsOf(data) :
          /\ SlotOf(data, p).k = "people"
          /\ DomainOf(data, p) \in DOMAIN domain2names
          /\ "people" \in DOMAIN domain2names[DomainOf(data, p)]
          /\ \A c \in 1..Len(domain2names[DomainOf(data, p)]["people"]) :
                domain2names[DomainOf(data, p)]["people"][c] # SlotOf(data, p).v
    /\ \E p \in SlotsOf(data) : DomainOf(data, p) \notin DOMAIN domain2names
    /\ \E p \in SlotsOf(data) : SlotOf(Returned, p).v # SlotOf(data, p).v

\* the slots outside the exclusion set whose domain is a key of the ontology
\* and whose name is no key of that domain's part of the ontology
MissingSlots(corpus) ==
    {p \in SlotsOf(corpus) :
        /\ Eligible(corpus, p)
        /\ SlotOf(corpus, p).k \notin DOMAIN domain2names[DomainOf(corpus, p)]}

\* C7: a call over a dialogue that holds a slot outside the exclusion set,
\* under a domain of the ontology, that the ontology's part for that domain
\* lacks, raises an exception whose message shows the dialogue id, the
\* domain, the slot and the value of such a slot.
C7_MissingSlotError ==
    pc = "mapped" =>
        \A n \in 1..Len(data) :
            (\E p \in MissingSlots(data) : p[1] = n) =>
                /\ ~results[n].ok
                /\ \E p \in MissingSlots(data) :
                      /\ p[1] = n
                      /\ {<<"dialog_id", data[n].dialog_id>>,
                           <<"domain", DomainOf(data, p)>>,
                           <<"slot", SlotOf(data, p).k>>,
                           <<"value", SlotOf(data, p).v>>}
                             \subseteq results[n].exc.info

----------------------------------------------------------------------------
(* main of preprocessor_fuzzy.py: the claims.                              *)

\* C3: a run that ends without an exception writes a corpus with the
\* dialogue ids of the input, each dialogue once, every dialogue with as
\* many turns as in the input, and the turn at each place the turn the
\* input has at that place of that dialogue.
C3_CountsAndOrder ==
    pc = "done" =>
        /\ Len(output.corpus) = Len(data)
        /\ DictKeys(output.corpus) = {data[n].dialog_id : n \in 1..Len(data)}
        /\ \A n \in 1..Len(data) :
              LET turn_list == DictGet(output.corpus, data[n].dialog_id)
              IN  /\ Len(turn_list) = Len(data[n].turn_list)
                  /\ \A i \in 1..Len(turn_list) :
                        turn_list[i].tag = data[n].turn_list[i].tag

\* a finished run over two dialogues, one of two turns, on two workers,
\* where the second dialogue was done first
C3_Witness ==
    /\ pc = "done"
    /\ Len(data) >= 2
    /\ \E n \in 1..Len(data) : Len(data[n].turn_list) >= 2
    /\ args.nj >= 2
    /\ pool.first_done = 2

\* the place of the first step of that name in the log, 0 when none
FirstStep(name) ==
    IF \E i \in 1..Len(log) : log[i] = name
    THEN CHOOSE i \in 1..Len(log) :
            log[i] = name /\ \A h \in 1..(i - 1) : log[h] # name
    ELSE 0

\* C9: the existence check of the ontology path comes before schema
\* normalisation and before the parsing of the ontology; a run whose
\* ontology path does not exist ends in FileNotFoundError with the corpus
\* not processed and nothing written.
C9_CheckBeforeProcessing ==
    /\ \A name \in {"preprocess_schema", "load"} :
          FirstStep(name) # 0 =>
              (FirstStep("exists") # 0 /\ FirstStep("exists") < FirstStep(name))
    /\ (pc = "failed" /\ exc.type = "FileNotFoundError") =>
          (FirstStep("preprocess_schema") = 0 /\ output = NoOutput)

\* C10: once a worker's call of fuzzy_map_per_dialog has raised, nothing
\* is written, to the output file or to standard output, and map() does
\* not return.
C10_NoPartialOutput ==
    pool.first_exc # NoExc => (output = NoOutput /\ pc \notin {"joined", "done"})

\* a run ended by a worker's exception after the call for another dialogue
\* had returned, with nothing written
C10_Witness ==
    /\ pc = "failed"
    /\ exc.type = "KeyError"
    /\ \E n \in 1..Len(results) : results[n].ok
    /\ output = NoOutput

----------------------------------------------------------------------------
(* Schema normalisation: the slots whose key is valid.                     *)

\* C11: every slot of an input turn whose key is in the schema's slot list
\* of its domain, a domain of the schema that holds a slot mapping, is in
\* the output under the same key with the same value, whatever else the
\* domain's slot mapping holds.
C11_ValidSlotsKept ==
    pc \in {"once", "twice"} =>
        \A p \in SlotsOf(data) :
            (/\ Valid(DomainOf(data, p))
             /\ InList(SlotOf(data, p).k, schema[DomainOf(data, p)])) =>
                LET out == TurnAt(new_data, <<p[1], p[2]>>).state.items
                IN  /\ DictHas(out, DomainOf(data, p))
                    /\ DictHas(DictGet(out, DomainOf(data, p)).items, SlotOf(data, p).k)
                    /\ DictGet(DictGet(out, DomainOf(data, p)).items, SlotOf(data, p).k)
                          = SlotOf(data, p).v

====
